---- MODULE Spec2Model ----
(***************************************************************************)
(* The relay of src/src/server.js: two socket.io namespaces (/browsers for *)
(* producers, /apps for consumers), the shared snapshot `state`, and the   *)
(* membership sets `connections`.  Every handler of the file is one        *)
(* action; JavaScript values are tagged records so that undefined, null,   *)
(* numbers and objects stay distinct.                                      *)
(***************************************************************************)
EXTENDS Integers, Sequences, FiniteSets, TLC

VARIABLES
  objects,      \* the heap: object identity -> contents of a State object
  state,        \* `let state`: a reference into the heap
  connections,  \* connections.browsers / connections.apps (Sets of socket ids)
  sockets,      \* sockets currently connected to each socket.io namespace
  handlers,     \* sockets whose connect handler ran to its end (listeners installed)
  last,         \* the handler that ran last: its arguments, outcome and emissions
  evCount,      \* number of producer events the relay has processed
  joinedAt,     \* per consumer: evCount when its current connection was made
  inbox,        \* per consumer: how often each producer event reached it
  ref           \* view of a consumer connected from the start

vars == <<objects, state, connections, sockets, handlers, last, evCount, joinedAt, inbox, ref>>

----------------------------------------------------------------------------
(* Bounds and input domains *)

MaxEvents == 3

BrowserIds == {"/browsers#1", "/browsers#2"}
AppIds == {"/apps#1", "/apps#2"}

----------------------------------------------------------------------------
(* JavaScript values *)

Undefined == [tag |-> "undefined"]
Null == [tag |-> "null"]
Num(n) == [tag |-> "num", val |-> n]
Obj(f) == [tag |-> "obj", map |-> f]
EmptyMap == [k \in {} |-> 0]

\* ToBoolean: undefined, null and 0 are falsy; every object is truthy
Truthy(v) == v.tag = "obj" \/ (v.tag = "num" /\ v.val # 0)

\* own enumerable properties; Object.assign skips undefined and null sources
Props(v) == IF v.tag = "obj" THEN v.map ELSE EmptyMap

\* Object.assign({}, a, b)
ObjectAssign(a, b) ==
  Obj([k \in DOMAIN Props(a) \cup DOMAIN Props(b) |->
        IF k \in DOMAIN Props(b) THEN Props(b)[k] ELSE Props(a)[k]])

\* a message payload: an object with (some of) the fields the relay reads or writes
Data(nodes, styles, inspectionRoot, nodeId, entities) ==
  [tag |-> "data", nodes |-> nodes, styles |-> styles,
   inspectionRoot |-> inspectionRoot, nodeId |-> nodeId, entities |-> entities]

Entities(nodes) == [tag |-> "entities", nodes |-> nodes]

----------------------------------------------------------------------------
(* Message kinds *)

incoming ==
  [SET_DOCUMENT |-> "SET_DOCUMENT", SET_STYLES |-> "SET_STYLES",
   SET_INSPECTION_ROOT |-> "SET_INSPECTION_ROOT",
   TARGET_CONNECTED |-> "TARGET_CONNECTED",
   TARGET_DISCONNECTED |-> "TARGET_DISCONNECTED", ERROR |-> "ERROR"]

outgoing == [HIGHLIGHT |-> "HIGHLIGHT"]

NoTargetsText == "No available browser targets"

----------------------------------------------------------------------------
(* Inputs a producer or a consumer can send *)

N1 == Obj(1 :> "X")
N2 == Obj(2 :> "Y")
S5A == Obj(5 :> "A")
S5B == Obj(5 :> "B")
S7B == Obj(7 :> "B")

DocumentPayloads ==
  { Data(N1, Obj(EmptyMap), Undefined, Undefined, Undefined),
    Data(N2, S7B, Undefined, Undefined, Undefined),
    Data(Undefined, Obj(EmptyMap), Undefined, Undefined, Entities(N1)) }

StylesPayloads ==
  { Data(Undefined, s, Undefined, Undefined, Undefined) : s \in {S5A, S5B, S7B} }

RootPayloads ==
  { Data(Undefined, Undefined, Undefined, Num(7), Undefined),
    Data(Undefined, Undefined, Num(7), Undefined, Undefined),
    Data(Undefined, Undefined, Num(5), Undefined, Undefined) }

ProducerEvents ==
  ({incoming.SET_DOCUMENT} \X DocumentPayloads)
    \cup ({incoming.SET_STYLES} \X StylesPayloads)
    \cup ({incoming.SET_INSPECTION_ROOT} \X RootPayloads)
    \cup ({incoming.ERROR} \X {Undefined})

ConsumerRequests ==
  {outgoing.HIGHLIGHT} \X {Data(Undefined, Undefined, Undefined, Num(3), Undefined)}

----------------------------------------------------------------------------
(* The store *)

INITIAL_STATE == "object@27"

InitialStateLiteral ==
  [inspectionRoot |-> Null, nodes |-> Obj(EmptyMap), styles |-> Obj(EmptyMap)]

\* the object `state` refers to
Store == objects[state]

SetDocumentMerging(s, data) ==
  [s EXCEPT !.nodes = ObjectAssign(s.nodes, data.nodes),
            !.styles = ObjectAssign(s.styles, data.styles)]

SetDocument(s, data) ==
  [s EXCEPT !.nodes = data.nodes, !.styles = data.styles]

SetStylesReplacing(s, data) == [s EXCEPT !.styles = Obj(Props(data.styles))]

SetStyles(s, data) == [s EXCEPT !.styles = ObjectAssign(s.styles, data.styles)]

SetInspectionRoot(s, data) == [s EXCEPT !.inspectionRoot = data.inspectionRoot]

\* maybeUpdateState mutates the object `state` refers to, in place
maybeUpdateState(message, data) ==
  objects' = [objects EXCEPT ![state] =
    CASE message = incoming.SET_DOCUMENT -> SetDocument(@, data)
      [] message = incoming.SET_STYLES -> SetStyles(@, data)
      [] message = incoming.SET_INSPECTION_ROOT -> SetInspectionRoot(@, data)
      [] OTHER -> @]

----------------------------------------------------------------------------
(* Emission *)

Emission(ns, type, data, to) == [ns |-> ns, type |-> type, data |-> data, to |-> to]

emitToRegisteredApps(type, data, connected) ==
  Emission("apps", type, data, connections.apps \cap connected)

\* namespaces.apps.emit(type, data): to every socket of the /apps namespace
emitToApps(type, data, connected) == Emission("apps", type, data, connected)

----------------------------------------------------------------------------
(* The registry *)

registerConnectionNoCheck(socketId, type) ==
  [threw |-> FALSE,
   connections |-> [connections EXCEPT ![type] = @ \cup {socketId}]]

registerConnection(socketId, type) ==
  IF socketId \in connections[type]
    THEN [threw |-> TRUE, connections |-> connections]
    ELSE [threw |-> FALSE,
          connections |-> [connections EXCEPT ![type] = @ \cup {socketId}]]

\* registerDisconnect returns a function; calling it is left to the caller
registerDisconnect(socketId, type) ==
  [closure |-> "registerDisconnect", socketId |-> socketId, type |-> type]

----------------------------------------------------------------------------
(* A consumer's view *)

EmptyView == [inspectionRoot |-> Null, nodes |-> Obj(EmptyMap), styles |-> Obj(EmptyMap)]

PayloadRoot(data) ==
  IF data.nodeId # Undefined THEN data.nodeId ELSE data.inspectionRoot

PayloadNodes(data) ==
  IF data.entities # Undefined THEN data.entities.nodes ELSE data.nodes

ConsumerApply(v, type, data) ==
  CASE type = incoming.SET_DOCUMENT ->
         [v EXCEPT !.nodes = PayloadNodes(data), !.styles = data.styles]
    [] type = incoming.SET_STYLES ->
         [v EXCEPT !.styles = ObjectAssign(v.styles, data.styles)]
    [] type = incoming.SET_INSPECTION_ROOT ->
         [v EXCEPT !.inspectionRoot = PayloadRoot(data)]
    [] OTHER -> v

RECURSIVE ApplyAll(_, _)
ApplyAll(v, es) ==
  IF es = <<>> THEN v
  ELSE ApplyAll(ConsumerApply(v, Head(es).type, Head(es).data), Tail(es))

----------------------------------------------------------------------------
(* Bookkeeping of what was delivered *)

NoEvents == [n \in 1..MaxEvents |-> 0]

Idle == [op |-> "none", id |-> "", threw |-> FALSE, type |-> "", data |-> Undefined,
         emits |-> <<>>]

Ran(op, id, threw, type, data, emits) ==
  [op |-> op, id |-> id, threw |-> threw, type |-> type, data |-> data, emits |-> emits]

----------------------------------------------------------------------------
(* Initial state *)

Init ==
  /\ objects = [o \in {INITIAL_STATE} |-> InitialStateLiteral]
  /\ state = INITIAL_STATE
  /\ connections = [browsers |-> {}, apps |-> {}]
  /\ sockets = [browsers |-> {}, apps |-> {}]
  /\ handlers = {}
  /\ last = Idle
  /\ evCount = 0
  /\ joinedAt = [a \in AppIds |-> 0]
  /\ inbox = [a \in AppIds |-> NoEvents]
  /\ ref = EmptyView

----------------------------------------------------------------------------
(* Handlers *)

onBrowserConnect(browser) ==
  /\ browser \in BrowserIds \ sockets.browsers
  /\ sockets' = [sockets EXCEPT !.browsers = @ \cup {browser}]
  /\ LET r == registerConnection(browser, "browsers") IN
       /\ connections' = r.connections
       /\ IF r.threw
            THEN /\ handlers' = handlers
                 /\ last' = Ran("onBrowserConnect", browser, TRUE, "", Undefined, <<>>)
            ELSE /\ handlers' = handlers \cup {browser}
                 /\ last' = Ran("onBrowserConnect", browser, FALSE, "", Undefined,
                                <<emitToApps(incoming.TARGET_CONNECTED, Undefined, sockets.apps)>>)
  /\ UNCHANGED <<objects, state, evCount, joinedAt, inbox, ref>>

\* browser.on(message, data => { maybeUpdateState(message, data); emitToApps(...) })
onBrowserMessage(browser, message, data) ==
  /\ browser \in sockets.browsers \cap handlers
  /\ evCount < MaxEvents
  /\ maybeUpdateState(message, data)
  /\ LET e == emitToApps(message, data, sockets.apps) IN
       /\ last' = Ran("onBrowserMessage", browser, FALSE, message, data, <<e>>)
       /\ evCount' = evCount + 1
       /\ inbox' = [a \in AppIds |->
                      IF a \in e.to THEN [inbox[a] EXCEPT ![evCount + 1] = @ + 1]
                      ELSE inbox[a]]
       /\ ref' = ConsumerApply(ref, message, data)
  /\ UNCHANGED <<state, connections, sockets, handlers, joinedAt>>

\* browser.on(disconnect, () => registerDisconnect(browser.id, 'browsers')):
\* the listener builds the function registerDisconnect returns and drops it
onBrowserDisconnect(browser) ==
  /\ browser \in sockets.browsers
  /\ sockets' = [sockets EXCEPT !.browsers = @ \ {browser}]
  /\ handlers' = handlers \ {browser}
  /\ LET dropped == registerDisconnect(browser, "browsers") IN
       last' = Ran("onBrowserDisconnect", browser, FALSE, "", Undefined, <<>>)
  /\ UNCHANGED <<objects, state, connections, evCount, joinedAt, inbox, ref>>

PresenceEmit(conns, connected) ==
  IF Cardinality(conns.browsers) > 1
    THEN emitToApps(incoming.TARGET_CONNECTED, Undefined, connected)
    ELSE emitToApps(incoming.TARGET_DISCONNECTED, Undefined, connected)

RootReplayUnguarded(connected) ==
  <<emitToApps(incoming.SET_INSPECTION_ROOT,
               Data(Undefined, Undefined, Undefined, Store.inspectionRoot, Undefined),
               connected)>>

RootReplay(connected) ==
  IF Truthy(Store.inspectionRoot)
    THEN <<emitToApps(incoming.SET_INSPECTION_ROOT,
                      Data(Undefined, Undefined, Undefined, Store.inspectionRoot, Undefined),
                      connected)>>
    ELSE <<>>

DocumentReplay(connected) ==
  IF Truthy(Store.nodes)
    THEN <<emitToApps(incoming.SET_DOCUMENT,
                      Data(Undefined, Store.styles, Undefined, Undefined, Entities(Store.nodes)),
                      connected)>>
    ELSE <<>>

onClientConnect(app) ==
  /\ app \in AppIds \ sockets.apps
  /\ sockets' = [sockets EXCEPT !.apps = @ \cup {app}]
  /\ joinedAt' = [joinedAt EXCEPT ![app] = evCount]
  /\ inbox' = [inbox EXCEPT ![app] = NoEvents]
  /\ LET r == registerConnection(app, "browsers")
         connected == sockets.apps \cup {app}
     IN
       /\ connections' = r.connections
       /\ IF r.threw
            THEN /\ handlers' = handlers
                 /\ last' = Ran("onClientConnect", app, TRUE, "", Undefined, <<>>)
            ELSE /\ handlers' = handlers \cup {app}
                 /\ last' = Ran("onClientConnect", app, FALSE, "", Undefined,
                                <<PresenceEmit(r.connections, connected)>>
                                  \o RootReplay(connected) \o DocumentReplay(connected))
  /\ UNCHANGED <<objects, state, evCount, ref>>

onClientRequest(app, type, data) ==
  /\ app \in sockets.apps \cap handlers
  /\ last' = Ran("onClientRequest", app, FALSE, type, data,
                 IF Cardinality(connections.browsers) > 0
                   THEN <<Emission("browsers", type, data, sockets.browsers)>>
                   ELSE <<Emission("apps", incoming.ERROR,
                                   [tag |-> "error", error |-> NoTargetsText],
                                   sockets.apps)>>)
  /\ UNCHANGED <<objects, state, connections, sockets, handlers, evCount, joinedAt, inbox, ref>>

\* app.on(disconnect, () => registerDisconnect(app.id, 'apps')): as for browsers
onClientDisconnect(app) ==
  /\ app \in sockets.apps
  /\ sockets' = [sockets EXCEPT !.apps = @ \ {app}]
  /\ handlers' = handlers \ {app}
  /\ joinedAt' = [joinedAt EXCEPT ![app] = 0]
  /\ inbox' = [inbox EXCEPT ![app] = NoEvents]
  /\ LET dropped == registerDisconnect(app, "apps") IN
       last' = Ran("onClientDisconnect", app, FALSE, "", Undefined, <<>>)
  /\ UNCHANGED <<objects, state, connections, evCount, ref>>

BrowserConnects == \E b \in BrowserIds : onBrowserConnect(b)
BrowserMessages == \E b \in BrowserIds : \E ev \in ProducerEvents : onBrowserMessage(b, ev[1], ev[2])
BrowserDisconnects == \E b \in BrowserIds : onBrowserDisconnect(b)
ClientConnects == \E a \in AppIds : onClientConnect(a)
ClientRequests == \E a \in AppIds : \E rq \in ConsumerRequests : onClientRequest(a, rq[1], rq[2])
ClientDisconnects == \E a \in AppIds : onClientDisconnect(a)

Next ==
  \/ BrowserConnects
  \/ BrowserMessages
  \/ BrowserDisconnects
  \/ ClientConnects
  \/ ClientRequests
  \/ ClientDisconnects

Spec == Init /\ [][Next]_vars

----------------------------------------------------------------------------
(* Observations used by the properties *)

ClientConnected == last.op = "onClientConnect" /\ ~last.threw

BrowserMessage(type) == last.op = "onBrowserMessage" /\ last.type = type

Emitted(type) == { i \in DOMAIN last.emits : last.emits[i].type = type }

\* what a consumer that applies the messages of the last handler ends with
JoinerView == ApplyAll(EmptyView, last.emits)

----------------------------------------------------------------------------
(* C1: a consumer that connects after any sequence of producer events and   *)
(* applies the replay it is sent ends with the same inspectionRoot,         *)
(* nodeGraph and nodeStyles as a consumer that was connected from the       *)
(* start and applied every broadcast event.                                 *)
C1_ReplayEquivalence == ClientConnected => JoinerView = ref

(* C2: when the last connected producer disconnects, the store is the empty *)
(* initial state again, and a consumer that connects while no producer is   *)
(* connected is sent no SetInspectionRoot and an empty SetDocument.         *)
C2_ResetOnLastProducerDisconnect ==
  /\ (last.op = "onBrowserDisconnect" /\ sockets.browsers = {})
        => Store = InitialStateLiteral
  /\ (ClientConnected /\ sockets.browsers = {})
        => /\ Emitted(incoming.SET_INSPECTION_ROOT) = {}
           /\ \A i \in Emitted(incoming.SET_DOCUMENT) :
                /\ last.emits[i].data.styles = Obj(EmptyMap)
                /\ last.emits[i].data.entities.nodes = Obj(EmptyMap)

(* C3: a consumer request made while no producer is connected is not sent   *)
(* on the producer channel; it yields exactly one Error event on the        *)
(* consumer channel, carrying "No available browser targets".               *)
C3_NoTargetError ==
  (last.op = "onClientRequest" /\ sockets.browsers = {})
    => /\ Len(last.emits) = 1
       /\ last.emits[1].ns = "apps"
       /\ last.emits[1].type = incoming.ERROR
       /\ last.emits[1].data.error = NoTargetsText

(* C4: a producer event is emitted once, verbatim, to every consumer        *)
(* connected when it is processed; each connected consumer has received     *)
(* exactly the events processed since it connected, once each, and none of  *)
(* the earlier ones.                                                        *)
C4_FanOut ==
  /\ last.op = "onBrowserMessage"
        => last.emits = <<Emission("apps", last.type, last.data, sockets.apps)>>
  /\ \A a \in sockets.apps : \A n \in 1..MaxEvents :
        inbox[a][n] = IF joinedAt[a] < n /\ n <= evCount THEN 1 ELSE 0

C4_Witness ==
  /\ last.op = "onBrowserMessage"
  /\ sockets.apps = AppIds
  /\ \E a, b \in AppIds : joinedAt[a] = 0 /\ joinedAt[b] > 0 /\ joinedAt[b] < evCount

(* C5: registering an id that its group already holds throws and leaves     *)
(* both membership sets, and so their sizes, as they were.                  *)
C5_DuplicateRejected ==
  [][ (last'.op \in {"onBrowserConnect", "onClientConnect"}
         /\ last'.id \in connections.browsers)
        => (last'.threw /\ connections' = connections) ]_vars

C5_Witness ==
  /\ last.op = "onBrowserConnect"
  /\ last.threw
  /\ last.id \in connections.browsers

(* C6: SetStyles merges: every key of the payload maps to the payload's     *)
(* value, every other key of the old nodeStyles keeps its value, and        *)
(* nodeGraph and inspectionRoot are untouched.                              *)
C6_SetStylesMerges ==
  [][ (last'.op = "onBrowserMessage" /\ last'.type = incoming.SET_STYLES)
        => LET m == Props(last'.data.styles)
               s == Props(Store.styles)
           IN /\ Store'.styles.tag = "obj"
              /\ DOMAIN Store'.styles.map = DOMAIN s \cup DOMAIN m
              /\ \A k \in DOMAIN m : Store'.styles.map[k] = m[k]
              /\ \A k \in DOMAIN s \ DOMAIN m : Store'.styles.map[k] = s[k]
              /\ Store'.nodes = Store.nodes
              /\ Store'.inspectionRoot = Store.inspectionRoot ]_vars

C6_Witness ==
  /\ BrowserMessage(incoming.SET_STYLES)
  /\ last.data.styles = S7B
  /\ Store.styles = Obj(5 :> "A" @@ 7 :> "B")

C8_SetInspectionRootReplaces ==
  (BrowserMessage(incoming.SET_INSPECTION_ROOT) /\ last.data.nodeId # Undefined)
    => Store.inspectionRoot = last.data.nodeId

(* C9: every consumer connect emits a SetDocument that carries the store's  *)
(* current nodeStyles and nodeGraph.                                        *)
C9_ReplayGuarantee ==
  ClientConnected
    => \E i \in Emitted(incoming.SET_DOCUMENT) :
         /\ last.emits[i].data.styles = Store.styles
         /\ last.emits[i].data.entities.nodes = Store.nodes

(* C10: the SetInspectionRoot and SetDocument replayed when a consumer      *)
(* connects go to that consumer alone.                                      *)
C10_ReplayScopedToJoiner ==
  ClientConnected
    => \A i \in Emitted(incoming.SET_INSPECTION_ROOT) \cup Emitted(incoming.SET_DOCUMENT) :
         last.emits[i].to = {last.id}

(* C11: every producer connect broadcasts TargetConnected to all consumers, *)
(* and a producer disconnect that leaves no producer connected broadcasts   *)
(* TargetDisconnected to all consumers.                                     *)
C11_ProducerPresenceAnnounced ==
  /\ (last.op = "onBrowserConnect" /\ ~last.threw)
        => \E i \in Emitted(incoming.TARGET_CONNECTED) : last.emits[i].to = sockets.apps
  /\ (last.op = "onBrowserDisconnect" /\ sockets.browsers = {})
        => \E i \in Emitted(incoming.TARGET_DISCONNECTED) : last.emits[i].to = sockets.apps

(* C12: the presence event of a consumer connect is TargetConnected exactly *)
(* when a producer is connected at that time, and TargetDisconnected        *)
(* exactly when none is.                                                    *)
C12_PresenceMirrorsProducers ==
  ClientConnected
    => /\ Emitted(incoming.TARGET_CONNECTED) # {} <=> sockets.browsers # {}
       /\ Emitted(incoming.TARGET_DISCONNECTED) # {} <=> sockets.browsers = {}

(* C13: a consumer request is forwarded verbatim to all producers, with no  *)
(* Error event, exactly when a producer is connected; the store and both    *)
(* membership sets are unchanged either way.                                *)
C13_RequestForwarding ==
  [][ last'.op = "onClientRequest"
        => /\ IF sockets.browsers # {}
                THEN last'.emits =
                       <<Emission("browsers", last'.type, last'.data, sockets.browsers)>>
                ELSE \A i \in DOMAIN last'.emits : last'.emits[i].ns # "browsers"
           /\ UNCHANGED <<objects, state, connections>> ]_vars

(* C14: a consumer connect adds the consumer's id to the consumer set and   *)
(* leaves the producer set unchanged.                                       *)
C14_ConsumerRegistersAsConsumer ==
  [][ (last'.op = "onClientConnect" /\ ~last'.threw)
        => /\ connections'.apps = connections.apps \cup {last'.id}
           /\ connections'.browsers = connections.browsers ]_vars

(* C15: each membership set is the set of connections of its group that     *)
(* connected and have not disconnected, so an id that disconnected can      *)
(* register again without a fault.                                          *)
C15_RegistryTracksLiveConnections ==
  /\ connections.browsers = sockets.browsers
  /\ connections.apps = sockets.apps
  /\ last.op \in {"onBrowserConnect", "onClientConnect"} => ~last.threw

(* C16: removing an id that its group does not hold throws, leaves both     *)
(* membership sets and the store unchanged and emits no presence event.     *)
C16_UnknownRemovalRejected ==
  [][ (\/ last'.op = "onClientDisconnect" /\ last'.id \notin connections.apps
       \/ last'.op = "onBrowserDisconnect" /\ last'.id \notin connections.browsers)
        => /\ last'.threw
           /\ last'.emits = <<>>
           /\ UNCHANGED <<objects, state, connections>> ]_vars

C18_ResetExactlyWhenEmpty ==
  [][ last'.op = "onBrowserDisconnect"
        => IF sockets'.browsers = {}
             THEN Store' = InitialStateLiteral
             ELSE Store' = Store /\ Emitted(incoming.TARGET_DISCONNECTED)' = {} ]_vars

(* C19: a consumer disconnect takes the consumer out of the consumer set,   *)
(* leaves the store and the producer set unchanged and broadcasts no        *)
(* presence event.                                                          *)
C19_ConsumerDisconnectFrame ==
  [][ last'.op = "onClientDisconnect"
        => /\ last'.id \in connections.apps
           /\ connections'.apps = connections.apps \ {last'.id}
           /\ connections'.browsers = connections.browsers
           /\ Store' = Store
           /\ last'.emits = <<>> ]_vars

(* C20: the object INITIAL_STATE names keeps its initial contents           *)
(* (inspectionRoot null, nodes {}, styles {}) whatever producers send.      *)
C20_InitialStateStaysEmpty == objects[INITIAL_STATE] = InitialStateLiteral

====
